---- MODULE Spec2Model ----
(***************************************************************************)
(* Model of the LRP consumptive-use accounting (lrp_update).               *)
(*                                                                         *)
(* Depths are fixed-point numbers: one unit is 1/1000 inch.  Volumes are   *)
(* in 1/1000 acre-foot, areas in acres.  A Python list is a TLA+ sequence; *)
(* the code's 0-based index t addresses element t + 1.                     *)
(***************************************************************************)
EXTENDS Integers, Sequences, FiniteSets, TLC

VARIABLES
    pc,            \* position of the running call
    ppt_series,    \* calc_SMB_for_time_series: argument ppt_series
    et_series,     \* calc_SMB_for_time_series: argument et_series
    t,             \* calc_SMB_for_time_series: loop index
    ss,            \* calc_SMB_for_time_series: list ss
    ppt_eff,       \* calc_SMB_for_time_series: list ppt_eff
    runoff,        \* calc_SMB_for_time_series: list runoff
    cons_use_ss,   \* calc_SMB_for_time_series: list cons_use_ss
    cons_use_AW,   \* calc_SMB_for_time_series: list cons_use_AW
    cons_use_ppt,  \* calc_SMB_for_time_series: list cons_use_ppt
    prev_used,     \* the prev_ss argument handed to each step of the run so far
    smb_ret,       \* the tuple returned by calc_SMB_for_time_series, if any
    probe,         \* a direct call of eff_precip / smb_calc / smb_calc_t0 and its result
    n_calls,       \* calls of calc_SMB_for_time_series made so far
    memo,          \* one earlier call of calc_SMB_for_time_series: arguments and return
    files,         \* the csv files: names and rows of the pr, ET and field-key tables
    wb,            \* the CalculateWaterBalance object (self)
    ccu,           \* frame of calculate_consumptive_use / _run_consumptive_use_calcs
    returned,      \* the per-unit series returned by the finished calls so far
    error,         \* the exception that ended the running call, if any
    rep            \* frame of GenerateLrpReport.generate_lrp_report and Pdf.print_page

smb_vars == <<ppt_series, et_series, t, ss, ppt_eff, runoff, cons_use_ss,
              cons_use_AW, cons_use_ppt, prev_used, smb_ret>>

\* everything outside the frame of calc_SMB_for_time_series
wb_vars == <<files, wb, ccu, returned, error>>
outer_vars == <<probe, n_calls, memo, wb_vars, rep>>

vars == <<pc, smb_vars, outer_vars>>

\* Python's None where a record is expected, and where a tuple is expected
NoCall == [fn |-> "None"]
NoReturn == <<>>

Min(a, b) == IF a <= b THEN a ELSE b
Max(a, b) == IF a >= b THEN a ELSE b

-----------------------------------------------------------------------------
(* Bounds of the model *)

\* longest series handed to calc_SMB_for_time_series by the test harness
MaxLen == 3

\* repeated calls of calc_SMB_for_time_series: longest series, number of calls
MaxRunLen == 2
MaxCalls == 3

\* units: months of data in the tables, calls of calculate_consumptive_use
MaxTimes == 3
MaxWbCalls == 2

\* report: dated samples of the reported unit in the tables
MaxSamples == 3

-----------------------------------------------------------------------------
(* smb_for_LRP.py *)

\* percent: RUNOFF_FRACTION = 0.0
RUNOFF_FRACTION == 0
\* variant of INITIAL_SOIL_STOR: the storage left by the unit processed before
InitialStorCarried ==
    IF ccu.state = "called" /\ ccu.applied # <<>>
      THEN ccu.applied[Len(ccu.applied)].ss ELSE 0

INITIAL_SOIL_STOR == 0
\* 16 inches
SOIL_STOR_CAP == 16000

\* The depths (1/1000 inch) on which the empirical curve is tabulated.
PptDom == <<0, 518, 1554, 3058, 20000>>
EtDom == <<0, 869, 1394, 20000, -500>>

\* the depths that are not negative
PptVals == {PptDom[i] : i \in DOMAIN PptDom}
EtVals == {EtDom[i] : i \in {j \in DOMAIN EtDom : EtDom[j] >= 0}}

IndexOf(seq, v) == CHOOSE i \in DOMAIN seq : seq[i] = v

\* floor(1000 * (0.70917 * p^0.82416 - 0.11556) * 10^(0.02426 * e)) with
\* p = precip / 1000 and e = et / 1000: one row per precip of PptDom, one
\* column per et of EtDom.
CurveTable ==
    << <<-116, -122, -125, -354, -113>>,
       <<296, 311, 320, 907, 288>>,
       <<904, 949, 977, 2763, 879>>,
       <<1666, 1748, 1801, 5092, 1620>>,
       <<8259, 8670, 8928, 25244, 8032>> >>

\* the empirical curve term of eff_precip, before max(0, .)
CurveTerm(precip, et) == CurveTable[IndexOf(PptDom, precip)][IndexOf(EtDom, et)]

\* variant of EffPrecipOfCurve: the curve term is not clamped at 0
EffPrecipUnclamped(precip, et, curve) == Min(precip, Min(et, curve))

\* min(precip, et, max(0, curve))
EffPrecipOfCurve(precip, et, curve) == Min(precip, Min(et, Max(0, curve)))

eff_precip(precip, et) == EffPrecipOfCurve(precip, et, CurveTerm(precip, et))

\* ppt * frac, frac in percent
calc_runoff(ppt, frac) == (ppt * frac) \div 100

rem_ppt(ppt, amount) == ppt - amount

\* variant of soil_stor_before_CU: the recharge is not capped
soil_stor_uncapped(cap, prev_ss, ppt_after_ro) == prev_ss + ppt_after_ro

soil_stor_before_CU(cap, prev_ss, ppt_after_ro) == Min(cap, prev_ss + ppt_after_ro)

CU_of_soil_stor(ss_before_CU, et, eff_ppt) == Min(ss_before_CU, et - eff_ppt)

soil_stor_after_CU(ss_before_CU, CU_soil_stor) == ss_before_CU - CU_soil_stor

\* variant of CU_of_applied_water: the difference is taken the other way
CU_of_applied_water_reversed(et, eff_ppt, CU_ss) == eff_ppt + CU_ss - et

CU_of_applied_water(et, eff_ppt, CU_ss) == et - eff_ppt - CU_ss

\* variant of CU_of_precip: the soil-storage share is left out
CU_of_precip_no_ss(eff_ppt, CU_ss) == eff_ppt

CU_of_precip(eff_ppt, CU_ss) == eff_ppt + CU_ss

\* The six values both step functions return.
StepTuple(eff_ppt, ro, CU_ss, ss_after_CU, cu_AW, cu_ppt) ==
    [eff_ppt |-> eff_ppt, ro |-> ro, CU_ss |-> CU_ss, ss_after_CU |-> ss_after_CU,
     cu_AW |-> cu_AW, cu_ppt |-> cu_ppt]

smb_calc(precip, et, ro_frac, ss_capacity, prev_ss) ==
    LET eff_ppt == eff_precip(precip, et)
        rem_ppt_after_eff_ppt == rem_ppt(precip, eff_ppt)
        ro == calc_runoff(rem_ppt_after_eff_ppt, ro_frac)
        rem_ppt_after_runoff == rem_ppt(rem_ppt_after_eff_ppt, ro)
        ss_before_CU == soil_stor_before_CU(ss_capacity, prev_ss, rem_ppt_after_runoff)
        CU_ss == CU_of_soil_stor(ss_before_CU, et, eff_ppt)
        ss_after_CU == soil_stor_after_CU(ss_before_CU, CU_ss)
        cu_AW == CU_of_applied_water(et, eff_ppt, CU_ss)
        cu_ppt == CU_of_precip(eff_ppt, CU_ss)
    IN  StepTuple(eff_ppt, ro, CU_ss, ss_after_CU, cu_AW, cu_ppt)

\* variant of smb_calc_t0: the first step recharges the storage like a later step
smb_calc_t0_recharging(precip, et, ro_frac, ss_capacity, prev_ss) ==
    smb_calc(precip, et, ro_frac, ss_capacity, prev_ss)

smb_calc_t0(precip, et, ro_frac, ss_capacity, prev_ss) ==
    LET eff_ppt == eff_precip(precip, et)
        rem_ppt_after_eff_ppt == rem_ppt(precip, eff_ppt)
        ro == calc_runoff(rem_ppt_after_eff_ppt, ro_frac)
        rem_ppt_after_runoff == rem_ppt(rem_ppt_after_eff_ppt, ro)
        ss_before_CU == prev_ss
        CU_ss == CU_of_soil_stor(ss_before_CU, et, eff_ppt)
        ss_after_CU == soil_stor_after_CU(ss_before_CU, CU_ss)
        cu_AW == CU_of_applied_water(et, eff_ppt, CU_ss)
        cu_ppt == CU_of_precip(eff_ppt, CU_ss)
    IN  StepTuple(eff_ppt, ro, CU_ss, ss_after_CU, cu_AW, cu_ppt)

-----------------------------------------------------------------------------
(* calc_SMB_for_time_series, one action per loop iteration *)

\* variant of SmbEnter: the result lists live at module level and are never
\* cleared
SmbEnterKeepLists(ppt, et) ==
    /\ ppt_series' = ppt
    /\ et_series' = et
    /\ t' = 0
    /\ smb_ret' = NoReturn
    /\ UNCHANGED <<ss, ppt_eff, runoff, cons_use_ss, cons_use_AW, cons_use_ppt,
                   prev_used>>

\* lines 74-79: the six result lists start empty
SmbEnter(ppt, et) ==
    /\ ppt_series' = ppt
    /\ et_series' = et
    /\ t' = 0
    /\ ss' = <<>>
    /\ ppt_eff' = <<>>
    /\ runoff' = <<>>
    /\ cons_use_ss' = <<>>
    /\ cons_use_AW' = <<>>
    /\ cons_use_ppt' = <<>>
    /\ prev_used' = <<>>
    /\ smb_ret' = NoReturn

\* the appends of lines 84-89 and 93-98
SmbAppend(out) ==
    /\ ss' = Append(ss, out.ss_after_CU)
    /\ ppt_eff' = Append(ppt_eff, out.eff_ppt)
    /\ runoff' = Append(runoff, out.ro)
    /\ cons_use_ss' = Append(cons_use_ss, out.CU_ss)
    /\ cons_use_AW' = Append(cons_use_AW, out.cu_AW)
    /\ cons_use_ppt' = Append(cons_use_ppt, out.cu_ppt)

\* variant of PrevStorage: the storage of the first step, ss[0]
PrevStorageFirst == ss[1]

\* the storage handed to smb_calc at iteration t > 0: ss[t - 1]
PrevStorage == ss[(t - 1) + 1]

\* lines 80-89: the iteration t == 0
SmbIterT0 ==
    /\ pc = "smb_loop"
    /\ t < Len(ppt_series)
    /\ t = 0
    /\ IF t + 1 \in DOMAIN et_series
         THEN /\ SmbAppend(smb_calc_t0(ppt_series[t + 1], et_series[t + 1],
                                       RUNOFF_FRACTION, SOIL_STOR_CAP, INITIAL_SOIL_STOR))
              /\ prev_used' = Append(prev_used, INITIAL_SOIL_STOR)
              /\ t' = t + 1
              /\ pc' = pc
         ELSE /\ pc' = "IndexError"
              /\ UNCHANGED <<t, ss, ppt_eff, runoff, cons_use_ss, cons_use_AW,
                             cons_use_ppt, prev_used>>
    /\ UNCHANGED <<ppt_series, et_series, smb_ret, outer_vars>>

\* lines 90-98: an iteration t > 0
SmbIter ==
    /\ pc = "smb_loop"
    /\ t < Len(ppt_series)
    /\ t # 0
    /\ IF t + 1 \in DOMAIN et_series
         THEN /\ SmbAppend(smb_calc(ppt_series[t + 1], et_series[t + 1],
                                    RUNOFF_FRACTION, SOIL_STOR_CAP, PrevStorage))
              /\ prev_used' = Append(prev_used, PrevStorage)
              /\ t' = t + 1
              /\ pc' = pc
         ELSE /\ pc' = "IndexError"
              /\ UNCHANGED <<t, ss, ppt_eff, runoff, cons_use_ss, cons_use_AW,
                             cons_use_ppt, prev_used>>
    /\ UNCHANGED <<ppt_series, et_series, smb_ret, outer_vars>>

\* line 99
SmbReturn ==
    /\ pc = "smb_loop"
    /\ t >= Len(ppt_series)
    /\ smb_ret' = <<ss, ppt_eff, runoff, cons_use_ss, cons_use_AW, cons_use_ppt>>
    /\ pc' = "smb_done"
    /\ UNCHANGED <<ppt_series, et_series, t, ss, ppt_eff, runoff, cons_use_ss,
                   cons_use_AW, cons_use_ppt, prev_used, outer_vars>>

-----------------------------------------------------------------------------
(* query_openet.py: CalculateWaterBalance *)

FEET_TO_INCHES == 12

\* x * INCHES_TO_FEET, INCHES_TO_FEET = 1. / 12.
TimesInchesToFeet(x) == x \div 12

\* a calendar date, to the month: the dates compared are month ends
Date(year, month) == year * 12 + (month - 1)
YearOf(d) == d \div 12
MonthOf(d) == (d % 12) + 1

NoObject == [state |-> "None"]
NoCcu == [state |-> "None"]
NoError == [kind |-> "None"]
NoFiles == [state |-> "None"]
NoReport == [state |-> "None"]
\* concat_appl_id = None
NoneId == 0

RECURSIVE SumSeq(_)
SumSeq(s) == IF s = <<>> THEN 0 ELSE Head(s) + SumSeq(Tail(s))

\* the ascending sequence of the elements of a set of numbers
RECURSIVE SortedSeq(_)
SortedSeq(S) ==
    IF S = {} THEN <<>>
    ELSE LET m == CHOOSE x \in S : \A y \in S : x <= y
         IN  <<m>> \o SortedSeq(S \ {m})

Column(df, col) == [i \in DOMAIN df |-> df[i][col]]
ValuesOf(df, col) == {df[i][col] : i \in DOMAIN df}

\* df[df['EKIfld'].isin(fld_keys['EKIfld'])]
IsInFields(df, fld_keys) ==
    LET Keep(r) == r.EKIfld \in ValuesOf(fld_keys, "EKIfld")
    IN  SelectSeq(df, Keep)

\* variant of UpTo: every row is kept
UpToAny(df, end_date) == df

\* df[df['time'] <= end_date]
UpTo(df, end_date) ==
    LET Keep(r) == r.time <= end_date
    IN  SelectSeq(df, Keep)

\* variant of GroupByTimeSum: the rows are not grouped
GroupByTimeUngrouped(df) ==
    [i \in DOMAIN df |->
        [time |-> df[i].time, acre_feet |-> df[i].acre_feet, acres |-> df[i].acres]]

\* df.groupby('time').sum(): one row per distinct time, in ascending time
GroupByTimeSum(df) ==
    LET ts == SortedSeq(ValuesOf(df, "time"))
    IN  [i \in DOMAIN ts |->
            LET Same(r) == r.time = ts[i]
                g == SelectSeq(df, Same)
            IN  [time |-> ts[i],
                 acre_feet |-> SumSeq(Column(g, "acre_feet")),
                 acres |-> SumSeq(Column(g, "acres"))]]

\* variant of WeightedAv: the volume is not converted from feet to inches
WeightedAvInFeet(df_sum) ==
    [i \in DOMAIN df_sum |->
        [time |-> df_sum[i].time,
         value |-> df_sum[i].acre_feet \div df_sum[i].acres]]

\* df_sum['acre-feet'] * FEET_TO_INCHES / df_sum['acres']
WeightedAv(df_sum) ==
    [i \in DOMAIN df_sum |->
        [time |-> df_sum[i].time,
         value |-> (df_sum[i].acre_feet * FEET_TO_INCHES) \div df_sum[i].acres]]

\* variant of FilterKeys: every key row is kept
FilterKeysAll(keys, year, repurposed) == keys

\* the key rows kept by the constructor: program year and repurposed flag
FilterKeys(keys, year, repurposed) ==
    LET is_repurposed == IF repurposed = "repurposed" THEN "Y" ELSE "N"
        Keep(r) == r.LRP_Yr = <<"Yr", year[Len(year)]>> /\ r.Repurp = is_repurposed
    IN  SelectSeq(keys, Keep)

\* variant of TagOf: the part is read from the precipitation file name
TagOfPp(fn, i) == files.fn_pp[i]

\* os.path.split(fn)[1].split('_')[i - 1]
TagOf(fn, i) == fn[i]

\* CalculateWaterBalance(fn_pp, fn_et, fn_fld_key, end_date).  A file name is
\* the sequence of the parts of its base name between underscores; its first
\* part, the program year, is a sequence of characters.
WbNew(end_date) ==
    /\ IF Len(files.fn_pp) # 4
         THEN /\ error' = [kind |-> "ValueError", what |-> "fn_pp"]
              /\ pc' = "raised"
              /\ wb' = wb
         ELSE LET year == files.fn_pp[1]
                  repurposed == files.fn_pp[3]
              IN  IF year # TagOf(files.fn_et, 1)
                    THEN /\ error' = [kind |-> "Exception", what |-> "years do not match"]
                         /\ pc' = "raised"
                         /\ wb' = wb
                    ELSE IF Len(files.fn_et) < 3
                    THEN /\ error' = [kind |-> "IndexError", what |-> "fn_et"]
                         /\ pc' = "raised"
                         /\ wb' = wb
                    ELSE IF repurposed # TagOf(files.fn_et, 3)
                    THEN /\ error' = [kind |-> "Exception",
                                      what |-> "repurposed do not match"]
                         /\ pc' = "raised"
                         /\ wb' = wb
                    ELSE /\ wb' = [state |-> "constructed",
                                   lpr_year |-> year,
                                   year |-> year,
                                   repurposed |-> repurposed,
                                   end_date |-> end_date,
                                   df_et |-> UpTo(files.et, end_date),
                                   df_pp |-> UpTo(files.pp, end_date),
                                   eki_fld_id_keys |->
                                       FilterKeys(files.keys, year, repurposed),
                                   df_smb |-> <<>>,
                                   calls |-> 0]
                         /\ pc' = "wb_ready"
                         /\ error' = error

\* a caller constructs a CalculateWaterBalance
WbConstruct(end_date) ==
    /\ pc = "idle"
    /\ files # NoFiles
    /\ WbNew(end_date)
    /\ UNCHANGED <<smb_vars, probe, n_calls, memo, files, ccu, returned, rep>>

\* the key rows of one unit: the group of groupby('concat_appl_ID'), or
\* eki_fld_id_keys[eki_fld_id_keys['concat_appl_ID'] == concat_appl_id]
KeysOfUnit(keys, id) ==
    LET Keep(r) == r.concat_appl_ID = id
    IN  SelectSeq(keys, Keep)

\* calculate_consumptive_use(concat_appl_id), up to the first call of
\* _run_consumptive_use_calcs
CcuCall(id) ==
    /\ pc \in {"wb_ready", "ccu_done"}
    /\ LET groups == IF id = NoneId
                       THEN SortedSeq(ValuesOf(wb.eki_fld_id_keys, "concat_appl_ID"))
                       ELSE <<id>>
       IN  /\ ccu' = [state |-> "called", concat_appl_id |-> id, groups |-> groups,
                      applied |-> <<>>, df_pp_av |-> <<>>, df_et_av |-> <<>>]
           /\ IF groups = <<>>
                THEN /\ pc' = "ccu_done"
                     /\ wb' = [wb EXCEPT !.df_smb = <<>>, !.calls = @ + 1]
                ELSE /\ pc' = "run_calcs"
                     /\ wb' = [wb EXCEPT !.calls = @ + 1]
    /\ UNCHANGED <<smb_vars, probe, n_calls, memo, files, returned, error, rep>>

\* the columns of a table: time, EKIfld, acre-feet, acres
NumColumns == 4

\* variant of Size: never 0
SizeNeverZero(df) == Len(df) * NumColumns + 1

\* DataFrame.size: rows times columns
Size(df) == Len(df) * NumColumns

\* _run_consumptive_use_calcs(fld_keys), lines 293-312, up to the call of smb
RunCalcs ==
    /\ pc = "run_calcs"
    /\ LET fld_keys == KeysOfUnit(wb.eki_fld_id_keys, Head(ccu.groups))
           df_et == IsInFields(wb.df_et, fld_keys)
           df_pp == IsInFields(wb.df_pp, fld_keys)
           df_et_av == WeightedAv(GroupByTimeSum(df_et))
           df_pp_av == WeightedAv(GroupByTimeSum(df_pp))
       IN  IF Size(df_et) = 0
             THEN /\ error' = [kind |-> "Exception", what |-> "evapotranspiration",
                               flds |-> ValuesOf(fld_keys, "EKIfld")]
                  /\ pc' = "raised"
                  /\ UNCHANGED <<smb_vars, ccu>>
             ELSE IF Size(df_pp) = 0
             THEN /\ error' = [kind |-> "Exception", what |-> "precipitation",
                               flds |-> ValuesOf(fld_keys, "EKIfld")]
                  /\ pc' = "raised"
                  /\ UNCHANGED <<smb_vars, ccu>>
             ELSE /\ ccu' = [ccu EXCEPT !.df_pp_av = df_pp_av, !.df_et_av = df_et_av]
                  /\ SmbEnter(Column(df_pp_av, "value"), Column(df_et_av, "value"))
                  /\ pc' = "smb_loop"
                  /\ error' = error
    /\ UNCHANGED <<probe, n_calls, memo, files, wb, returned, rep>>

\* the rows of df_smb for one unit: the six series of smb, the two weighted
\* depths, indexed by the times of the precipitation series
SmbFrame(id, ret, df_pp_av, df_et_av) ==
    [i \in DOMAIN ret[1] |->
        [concat_appl_id |-> id,
         time |-> df_pp_av[i].time,
         ss |-> ret[1][i],
         ppt_eff |-> ret[2][i],
         runoff |-> ret[3][i],
         cons_use_ss |-> ret[4][i],
         cons_use_AW |-> ret[5][i],
         cons_use_ppt |-> ret[6][i],
         pp_wght_av |-> df_pp_av[i].value,
         et_wght_av |-> df_et_av[i].value]]

\* the per-unit series of a frame, as the harness records them
SeriesByUnit(all, df) ==
    {[all |-> all, unit |-> id,
      rows |-> LET Keep(r) == r.concat_appl_id = id IN SelectSeq(df, Keep)] :
        id \in ValuesOf(df, "concat_appl_id")}

\* variant of LengthMatches: a column of any length is accepted
LengthUnchecked(values, index) == TRUE

\* df[col] = values: the values must be as many as the rows of the frame
LengthMatches(values, index) == Len(values) = Len(index)

\* _run_consumptive_use_calcs, lines 311-319, after smb returned; then the
\* next group, or the end of calculate_consumptive_use (lines 283-290)
RunCalcsFinish ==
    /\ pc = "smb_done"
    /\ ccu # NoCcu
    /\ IF ~LengthMatches(ccu.df_et_av, smb_ret[1])
         THEN /\ error' = [kind |-> "ValueError", what |-> "et_wght_av"]
              /\ pc' = "raised"
              /\ UNCHANGED <<ccu, wb, returned>>
         ELSE LET df == SmbFrame(Head(ccu.groups), smb_ret, ccu.df_pp_av, ccu.df_et_av)
                  applied == ccu.applied \o df
                  rest == Tail(ccu.groups)
              IN  /\ ccu' = [ccu EXCEPT !.applied = applied, !.groups = rest]
                  /\ error' = error
                  /\ IF rest = <<>>
                       THEN /\ wb' = [wb EXCEPT !.df_smb = applied]
                            /\ returned' = returned \cup
                                   SeriesByUnit(ccu.concat_appl_id = NoneId, applied)
                            /\ pc' = "ccu_done"
                       ELSE /\ pc' = "run_calcs"
                            /\ UNCHANGED <<wb, returned>>
    /\ UNCHANGED <<smb_vars, probe, n_calls, memo, files, rep>>

-----------------------------------------------------------------------------
(* query_openet.py: GenerateLrpReport.generate_lrp_report, Pdf *)

\* the last month of the reported quarter: lines 418-433
EndOfQuarter(water_year, quarter) ==
    CASE quarter = "Q1" -> Date(water_year - 1, 12)
      [] quarter = "Q2" -> Date(water_year, 3)
      [] quarter = "Q3" -> Date(water_year, 6)
      [] quarter = "Q4" -> Date(water_year, 9)

\* generate_lrp_report(fn_pp, fn_et, fn_fld_key, water_year, quarter, ...) of
\* a GenerateLrpReport with the given agreement number, area of land
\* repurposed (acres) and maximum consumptive use (1/1000 acre-foot), up to
\* the construction of the CalculateWaterBalance
ReportBegin(water_year, quarter, app_id, area, max_cu) ==
    /\ pc = "idle"
    /\ files # NoFiles
    /\ IF quarter \notin {"Q1", "Q2", "Q3", "Q4"}
         THEN /\ rep' = [state |-> "returned None", water_year |-> water_year,
                         quarter |-> quarter]
              /\ pc' = "report_none"
              /\ UNCHANGED <<wb, error>>
         ELSE /\ rep' = [state |-> "begun", water_year |-> water_year,
                         quarter |-> quarter,
                         lrp_agreement_number |-> app_id,
                         area_of_land_repurposed |-> area,
                         maximum_consumptive_use |-> max_cu]
              /\ WbNew(EndOfQuarter(water_year, quarter))
    /\ UNCHANGED <<smb_vars, probe, n_calls, memo, files, ccu, returned>>

\* line 441: calculate_consumptive_use(app_id)
ReportCalculate ==
    /\ pc = "wb_ready"
    /\ rep.state = "begun"
    /\ CcuCall(rep.lrp_agreement_number)

\* variant of WaterYearOf: the water year starts in November
WaterYearFromNovember(d) == IF MonthOf(d) < 11 THEN YearOf(d) ELSE YearOf(d) + 1

\* year.where(month < 10, year + 1)
WaterYearOf(d) == IF MonthOf(d) < 10 THEN YearOf(d) ELSE YearOf(d) + 1

\* pd.cut(month, bins=[0, 3, 6, 9, 12], labels=["Q2", "Q3", "Q4", "Q1"], right=True)
CutBins == <<0, 3, 6, 9, 12>>
CutLabels == <<"Q2", "Q3", "Q4", "Q1">>
Cut(x) ==
    LET i == CHOOSE j \in DOMAIN CutLabels : CutBins[j] < x /\ x <= CutBins[j + 1]
    IN  CutLabels[i]

\* the marker of a missing value
NaN == -999999999

\* df_smb with the column water_year: the years of index.levels[1], the
\* sorted distinct times, assigned by position
WithWaterYear(df) ==
    LET levels1 == SortedSeq(ValuesOf(df, "time"))
    IN  [i \in DOMAIN df |->
            [concat_appl_id |-> df[i].concat_appl_id, time |-> df[i].time,
             ss |-> df[i].ss, ppt_eff |-> df[i].ppt_eff, runoff |-> df[i].runoff,
             cons_use_ss |-> df[i].cons_use_ss, cons_use_AW |-> df[i].cons_use_AW,
             cons_use_ppt |-> df[i].cons_use_ppt, pp_wght_av |-> df[i].pp_wght_av,
             et_wght_av |-> df[i].et_wght_av,
             water_year |-> WaterYearOf(levels1[i])]]

\* df_wy: the rows of the target water year, with the column Q
WaterYearRows(df, water_year) ==
    LET Keep(r) == r.water_year = water_year
        df_wy == SelectSeq(df, Keep)
    IN  [i \in DOMAIN df_wy |->
            [time |-> df_wy[i].time, Q |-> Cut(MonthOf(df_wy[i].time)),
             ss |-> df_wy[i].ss, ppt_eff |-> df_wy[i].ppt_eff,
             runoff |-> df_wy[i].runoff, cons_use_ss |-> df_wy[i].cons_use_ss,
             cons_use_AW |-> df_wy[i].cons_use_AW,
             cons_use_ppt |-> df_wy[i].cons_use_ppt,
             pp_wght_av |-> df_wy[i].pp_wght_av, et_wght_av |-> df_wy[i].et_wght_av,
             water_year |-> df_wy[i].water_year]]

\* one row of groupby('Q').sum(): the sums of the columns over the rows g
SumRow(q, g) ==
    [Q |-> q,
     ss |-> SumSeq(Column(g, "ss")),
     ppt_eff |-> SumSeq(Column(g, "ppt_eff")),
     runoff |-> SumSeq(Column(g, "runoff")),
     cons_use_ss |-> SumSeq(Column(g, "cons_use_ss")),
     cons_use_AW |-> SumSeq(Column(g, "cons_use_AW")),
     cons_use_ppt |-> SumSeq(Column(g, "cons_use_ppt")),
     pp_wght_av |-> SumSeq(Column(g, "pp_wght_av")),
     et_wght_av |-> SumSeq(Column(g, "et_wght_av")),
     water_year |-> SumSeq(Column(g, "water_year"))]

\* df_wy.groupby('Q', observed=True).sum(): one row per quarter that has
\* rows, in the order of the categories
GroupByQSum(df_wy) ==
    LET Observed(q) == \E i \in DOMAIN df_wy : df_wy[i].Q = q
        obs == SelectSeq(CutLabels, Observed)
    IN  [i \in DOMAIN obs |->
            LET Same(r) == r.Q = obs[i]
            IN  SumRow(obs[i], SelectSeq(df_wy, Same))]

\* a row of missing values
NaNRow(q) ==
    [Q |-> q, ss |-> NaN, ppt_eff |-> NaN, runoff |-> NaN, cons_use_ss |-> NaN,
     cons_use_AW |-> NaN, cons_use_ppt |-> NaN, pp_wght_av |-> NaN,
     et_wght_av |-> NaN, water_year |-> NaN]

\* variant of Reindex: the frame is used as grouped
ReindexSkipped(df, labels) == df

\* df.reindex(labels)
Reindex(df, labels) ==
    [i \in DOMAIN labels |->
        IF \E j \in DOMAIN df : df[j].Q = labels[i]
          THEN df[CHOOSE j \in DOMAIN df : df[j].Q = labels[i]]
          ELSE NaNRow(labels[i])]

\* df.fillna(v)
FillNa(df, v) ==
    LET Fill(x) == IF x = NaN THEN v ELSE x
    IN  [i \in DOMAIN df |->
            [Q |-> df[i].Q, ss |-> Fill(df[i].ss), ppt_eff |-> Fill(df[i].ppt_eff),
             runoff |-> Fill(df[i].runoff), cons_use_ss |-> Fill(df[i].cons_use_ss),
             cons_use_AW |-> Fill(df[i].cons_use_AW),
             cons_use_ppt |-> Fill(df[i].cons_use_ppt),
             pp_wght_av |-> Fill(df[i].pp_wght_av),
             et_wght_av |-> Fill(df[i].et_wght_av),
             water_year |-> Fill(df[i].water_year)]]

\* variant of CumSum: the running total starts again at every row
CumSumRestarting(seq) == seq

\* Series.cumsum()
CumSum(seq) == [i \in DOMAIN seq |-> SumSeq(SubSeq(seq, 1, i))]

\* inches * INCHES_TO_FEET * area: depth in 1/1000 inch over acres, in
\* 1/1000 acre-foot
AcreFeet(inches, area) == TimesInchesToFeet(inches * area)

\* lines 452-455: df_sum with the acre-feet and the cumulative acre-feet
QuarterlySums(df_wy, area) ==
    LET df_sum == FillNa(Reindex(GroupByQSum(df_wy), <<"Q1", "Q2", "Q3", "Q4">>), 0)
        af == [i \in DOMAIN df_sum |-> AcreFeet(df_sum[i].cons_use_AW, area)]
        total == CumSum(af)
    IN  [i \in DOMAIN df_sum |->
            [Q |-> df_sum[i].Q, ss |-> df_sum[i].ss, ppt_eff |-> df_sum[i].ppt_eff,
             runoff |-> df_sum[i].runoff, cons_use_ss |-> df_sum[i].cons_use_ss,
             cons_use_AW |-> df_sum[i].cons_use_AW,
             cons_use_ppt |-> df_sum[i].cons_use_ppt,
             pp_wght_av |-> df_sum[i].pp_wght_av, et_wght_av |-> df_sum[i].et_wght_av,
             water_year |-> df_sum[i].water_year,
             cons_use_AW_af |-> af[i],
             total_cons_use_AW_af |-> total[i]]]

\* generate_lrp_report, lines 443-455, after calculate_consumptive_use returned
ReportAggregate ==
    /\ pc = "ccu_done"
    /\ rep.state = "begun"
    /\ LET df_smb == WithWaterYear(wb.df_smb)
           df_wy == WaterYearRows(df_smb, rep.water_year)
       IN  /\ wb' = [wb EXCEPT !.df_smb = df_smb]
           /\ rep' = [state |-> "aggregated", water_year |-> rep.water_year,
                      quarter |-> rep.quarter,
                      lrp_agreement_number |-> rep.lrp_agreement_number,
                      area_of_land_repurposed |-> rep.area_of_land_repurposed,
                      maximum_consumptive_use |-> rep.maximum_consumptive_use,
                      df_wy |-> df_wy,
                      df_sum |-> QuarterlySums(df_wy, rep.area_of_land_repurposed)]
    /\ pc' = "aggregated"
    /\ UNCHANGED <<smb_vars, probe, n_calls, memo, files, ccu, returned, error>>

\* "{:.2f}".format(x) of a value in thousandths: the value in hundredths
Fmt2(x) == IF x >= 0 THEN (x + 5) \div 10 ELSE -((5 - x) \div 10)

\* Series.max(): missing for an empty series
MaxOf(seq) ==
    IF seq = <<>> THEN NaN
    ELSE CHOOSE x \in {seq[i] : i \in DOMAIN seq} : \A i \in DOMAIN seq : seq[i] <= x

\* Pdf._table: the cells of the quarter rows, lines 618-630
TableRows(df) ==
    [i \in 1..Min(4, Len(df)) |->
        [Q |-> df[i].Q,
         et_wght_av |-> Fmt2(df[i].et_wght_av),
         pp_wght_av |-> Fmt2(df[i].pp_wght_av),
         cons_use_ppt |-> Fmt2(df[i].cons_use_ppt),
         applied_surface_water |-> Fmt2(0),
         cons_use_AW |-> Fmt2(df[i].cons_use_AW),
         cons_use_AW_af |-> Fmt2(df[i].cons_use_AW_af),
         total_cons_use_AW_af |-> Fmt2(df[i].total_cons_use_AW_af)]]

\* Pdf._table: the cells of the row "Water Year Total", lines 631-640
TotalRow(df) ==
    [et_wght_av |-> Fmt2(SumSeq(Column(df, "et_wght_av"))),
     pp_wght_av |-> Fmt2(SumSeq(Column(df, "pp_wght_av"))),
     cons_use_ppt |-> Fmt2(SumSeq(Column(df, "cons_use_ppt"))),
     applied_surface_water |-> Fmt2(0),
     cons_use_AW |-> Fmt2(SumSeq(Column(df, "cons_use_AW"))),
     cons_use_AW_af |-> Fmt2(SumSeq(Column(df, "cons_use_AW_af"))),
     total_cons_use_AW_af |-> Fmt2(SumSeq(Column(df, "cons_use_AW_af")))]

\* variant of IsCompliant: a total equal to the maximum is not compliant
IsCompliantBelow(df, MaximumConsumptiveUse) ==
    LET m == MaxOf(Column(df, "total_cons_use_AW_af"))
    IN  m # NaN /\ m < MaximumConsumptiveUse

\* Pdf.page_body, lines 561-563
IsCompliant(df, MaximumConsumptiveUse) ==
    LET m == MaxOf(Column(df, "total_cons_use_AW_af"))
    IN  m # NaN /\ m <= MaximumConsumptiveUse

\* Pdf.print_page(df=df_sum.reset_index(), ...): the table and the verdict
PrintPage ==
    /\ pc = "aggregated"
    /\ rep' = [state |-> "printed", water_year |-> rep.water_year,
               quarter |-> rep.quarter,
               lrp_agreement_number |-> rep.lrp_agreement_number,
               area_of_land_repurposed |-> rep.area_of_land_repurposed,
               maximum_consumptive_use |-> rep.maximum_consumptive_use,
               df_wy |-> rep.df_wy,
               df_sum |-> rep.df_sum,
               table |-> TableRows(rep.df_sum),
               total_row |-> TotalRow(rep.df_sum),
               is_compliant |-> IsCompliant(rep.df_sum, rep.maximum_consumptive_use)]
    /\ pc' = "report_done"
    /\ UNCHANGED <<smb_vars, probe, n_calls, memo, wb_vars>>

-----------------------------------------------------------------------------
(* Direct calls of the pure functions, with any parameters *)

\* capacities, runoff fractions (percent) and carried storages tried
CapVals == {0, 1000, SOIL_STOR_CAP}
FracVals == {RUNOFF_FRACTION, 25, 100}
PrevVals == {INITIAL_SOIL_STOR, 500, SOIL_STOR_CAP}

\* raw values of the curve term tried by a direct call of eff_precip
CurveVals == {-354, -1, 0, 1, 311, 869, 25244}

ProbeStep ==
    /\ pc = "idle"
    /\ \E fn \in {"smb_calc", "smb_calc_t0"}, precip \in PptVals, et \in EtVals,
          ro_frac \in FracVals, cap \in CapVals, prev_ss \in PrevVals :
          probe' = [fn |-> fn, precip |-> precip, et |-> et, ro_frac |-> ro_frac,
                    cap |-> cap, prev_ss |-> prev_ss,
                    out |-> IF fn = "smb_calc"
                              THEN smb_calc(precip, et, ro_frac, cap, prev_ss)
                              ELSE smb_calc_t0(precip, et, ro_frac, cap, prev_ss)]
    /\ pc' = "probed"
    /\ UNCHANGED <<smb_vars, n_calls, memo, wb_vars, rep>>

ProbeEffPrecip ==
    /\ pc = "idle"
    /\ \E precip \in PptVals, et \in EtVals, curve \in CurveVals :
          probe' = [fn |-> "eff_precip", precip |-> precip, et |-> et, curve |-> curve,
                    out |-> EffPrecipOfCurve(precip, et, curve)]
    /\ pc' = "probed"
    /\ UNCHANGED <<smb_vars, n_calls, memo, wb_vars, rep>>

\* the harness calls calc_SMB_for_time_series(ppt, et)
SeriesOf(S, n) == [1..n -> S]

CallSmb ==
    /\ pc = "idle"
    /\ \E n \in 0..MaxLen :
         \E ppt \in SeriesOf(PptVals, n), et \in SeriesOf(EtVals, n) :
            SmbEnter(ppt, et)
    /\ pc' = "smb_loop"
    /\ n_calls' = n_calls + 1
    /\ UNCHANGED <<probe, memo, wb_vars, rep>>

\* depths used by the repeated calls
RunPptVals == {0, 20000}
RunEtVals == {869, 20000}

\* the harness calls calc_SMB_for_time_series again, after any earlier calls
CallSmbAgain ==
    /\ pc \in {"idle", "smb_done"}
    /\ n_calls < MaxCalls
    /\ \E n \in 0..MaxRunLen :
         \E ppt \in SeriesOf(RunPptVals, n), et \in SeriesOf(RunEtVals, n) :
            SmbEnter(ppt, et)
    /\ pc' = "smb_loop"
    /\ n_calls' = n_calls + 1
    /\ UNCHANGED <<probe, memo, wb_vars, rep>>

\* the harness keeps the arguments and the return value of a finished call
Remember ==
    /\ pc = "smb_done"
    /\ memo = NoCall
    /\ memo' = [fn |-> "calc_SMB_for_time_series", ppt |-> ppt_series,
                et |-> et_series, ret |-> smb_ret, call |-> n_calls]
    /\ UNCHANGED <<pc, smb_vars, probe, n_calls, wb_vars, rep>>

-----------------------------------------------------------------------------

\* nothing called yet
InitSmb ==
    /\ pc = "idle"
    /\ ppt_series = <<>>
    /\ et_series = <<>>
    /\ t = 0
    /\ ss = <<>>
    /\ ppt_eff = <<>>
    /\ runoff = <<>>
    /\ cons_use_ss = <<>>
    /\ cons_use_AW = <<>>
    /\ cons_use_ppt = <<>>
    /\ prev_used = <<>>
    /\ smb_ret = NoReturn
    /\ probe = NoCall
    /\ n_calls = 0
    /\ memo = NoCall

InitWb ==
    /\ rep = NoReport
    /\ wb = NoObject
    /\ ccu = NoCcu
    /\ returned = {}
    /\ error = NoError

Init ==
    /\ InitSmb
    /\ InitWb
    /\ files = NoFiles

Next ==
    \/ CallSmb
    \/ SmbIterT0
    \/ SmbIter
    \/ SmbReturn
    \/ ProbeStep
    \/ ProbeEffPrecip

Spec == Init /\ [][Next]_vars

\* repeated calls of calc_SMB_for_time_series in one process
NextRuns ==
    \/ CallSmbAgain
    \/ SmbIterT0
    \/ SmbIter
    \/ SmbReturn
    \/ Remember

SpecRuns == Init /\ [][NextRuns]_vars

-----------------------------------------------------------------------------
(* Several accounting units in one pair of tables *)

\* acres of the fields 1..5
Acres == <<12, 24, 12, 12, 12>>

\* field -> unit key table: fields 1 and 2 form unit 1, field 3 is unit 2;
\* field 4 is of another program year, field 5 is not repurposed
KeyFile ==
    << [EKIfld |-> 1, concat_appl_ID |-> 1, LRP_Yr |-> <<"Yr", "1">>, Repurp |-> "Y"],
       [EKIfld |-> 2, concat_appl_ID |-> 1, LRP_Yr |-> <<"Yr", "1">>, Repurp |-> "Y"],
       [EKIfld |-> 3, concat_appl_ID |-> 2, LRP_Yr |-> <<"Yr", "1">>, Repurp |-> "Y"],
       [EKIfld |-> 4, concat_appl_ID |-> 3, LRP_Yr |-> <<"Yr", "2">>, Repurp |-> "Y"],
       [EKIfld |-> 5, concat_appl_ID |-> 4, LRP_Yr |-> <<"Yr", "1">>, Repurp |-> "N"] >>

FnPp == << <<"Year", "1">>, "enrolled", "repurposed", "pr.csv" >>
FnEt == << <<"Year", "1">>, "enrolled", "repurposed", "ET.csv" >>

\* the k-th month of data: October 2023 onwards
UnitTime(k) == Date(2023, 10) + (k - 1)

Cyclic(pattern, k) == pattern[((k - 1) % Len(pattern)) + 1]

\* precipitation and ET depth (1/1000 inch) of a field in the k-th month
PpDepth(f, k) ==
    CASE f = 1 -> Cyclic(<<518, 20000, 1554>>, k)
      [] f = 2 -> Cyclic(<<518, 20000, 0>>, k)
      [] OTHER -> Cyclic(<<3058, 518, 0>>, k)
EtDepth(f, k) == Cyclic(<<1394, 869, 1394>>, k)

\* one row of a table: the volume of the depth over the field's acres
TableRow(time, f, depth) ==
    [time |-> time, EKIfld |-> f, acre_feet |-> (depth * Acres[f]) \div 12,
     acres |-> Acres[f]]

\* the months in which a field has rows: none, all, all but the last, all
\* but the first
Presence == {"none", "all", "head", "tail"}
Months(p) ==
    CASE p = "none" -> {}
      [] p = "all" -> 1..MaxTimes
      [] p = "head" -> 1..(MaxTimes - 1)
      [] p = "tail" -> 2..MaxTimes

DepthOf(var, f, k) == IF var = "pr" THEN PpDepth(f, k) ELSE EtDepth(f, k)

\* the rows of the fields fs, each in its months present[f], in file order
RECURSIVE TableOf(_, _, _)
TableOf(fs, present, var) ==
    IF fs = <<>> THEN <<>>
    ELSE LET f == Head(fs)
             ks == SortedSeq(Months(present[f]))
         IN  [i \in DOMAIN ks |-> TableRow(UnitTime(ks[i]), f, DepthOf(var, f, ks[i]))]
             \o TableOf(Tail(fs), present, var)

UnitFiles ==
    {[fn_pp |-> FnPp, fn_et |-> FnEt, keys |-> KeyFile,
      pp |-> TableOf(<<1, 2, 3, 4, 5>>, <<p1, p2, p3, "all", "all">>, "pr"),
      et |-> TableOf(<<1, 2, 3, 4, 5>>, <<e1, e2, e3, "all", "all">>, "ET")] :
        p1 \in Presence, e1 \in Presence,
        p2 \in {"none", "all"}, e2 \in {"none", "all"},
        p3 \in {"none", "all"}, e3 \in {"none", "all"}}

InitUnits ==
    /\ InitSmb
    /\ InitWb
    /\ files \in UnitFiles

Construct ==
    \E end_date \in {UnitTime(1), UnitTime(MaxTimes)} : WbConstruct(end_date)

\* calculate_consumptive_use() for all units, or for one unit
Calculate ==
    /\ wb # NoObject
    /\ wb.calls < MaxWbCalls
    /\ \E id \in {NoneId, 1, 2, 3} : CcuCall(id)

NextUnits ==
    \/ Construct
    \/ Calculate
    \/ RunCalcs
    \/ SmbIterT0
    \/ SmbIter
    \/ SmbReturn
    \/ RunCalcsFinish

SpecUnits == InitUnits /\ [][NextUnits]_vars

-----------------------------------------------------------------------------
(* File names with differing tags *)

ProgramYears == {<<"Year", "1">>, <<"Year", "2">>}
RepurposedTags == {"repurposed", "nonrepurposed"}

\* names Year_enrolled_repurposed_var.csv, and names with fewer parts
FnPpNames ==
    {<<y, "enrolled", r, "pr.csv">> : y \in ProgramYears, r \in RepurposedTags}
      \cup {<< <<"not">>, "existent.csv" >>}
FnEtNames ==
    {<<y, "enrolled", r, "ET.csv">> : y \in ProgramYears, r \in RepurposedTags}
      \cup {<< <<"Year", "1">>, "ET.csv" >>}

\* tables with the rows of every field in every month
NameFiles ==
    {[fn_pp |-> p, fn_et |-> e, keys |-> KeyFile,
      pp |-> TableOf(<<1, 2, 3, 4, 5>>, <<"all", "all", "all", "all", "all">>, "pr"),
      et |-> TableOf(<<1, 2, 3, 4, 5>>, <<"all", "all", "all", "all", "all">>, "ET")] :
        p \in FnPpNames, e \in FnEtNames}

InitNames ==
    /\ InitSmb
    /\ InitWb
    /\ files \in NameFiles

SpecNames == InitNames /\ [][NextUnits]_vars

-----------------------------------------------------------------------------
(* Tables with negative depths *)

\* the ET depth of field 3 in a month: as measured, or negative
NegEtVals == {1394, -500}
NegPpVals == {518, 1554}

\* the rows of field 3 (unit 2) only, one per month
NegativeFiles ==
    {[fn_pp |-> FnPp, fn_et |-> FnEt, keys |-> KeyFile,
      pp |-> [k \in 1..MaxTimes |-> TableRow(UnitTime(k), 3, p[k])],
      et |-> [k \in 1..MaxTimes |-> TableRow(UnitTime(k), 3, e[k])]] :
        p \in [1..MaxTimes -> NegPpVals], e \in [1..MaxTimes -> NegEtVals]}

InitNegative ==
    /\ InitSmb
    /\ InitWb
    /\ files \in NegativeFiles

SpecNegative == InitNegative /\ [][NextUnits]_vars

-----------------------------------------------------------------------------
(* Quarterly reports of one unit *)

\* the months a sample may be dated: the first and the last month of every
\* quarter of water year 2024, the month before and the month after it
ReportTimes ==
    << Date(2023, 9), Date(2023, 10), Date(2023, 12), Date(2024, 1), Date(2024, 3),
       Date(2024, 4), Date(2024, 6), Date(2024, 7), Date(2024, 9), Date(2024, 10) >>

\* precipitation and ET depth (1/1000 inch) of a field in a month of kind
\* "A" (dry) or "B" (wet)
KindDepth(var, f, kind) ==
    IF var = "pr"
      THEN CASE kind = "A" /\ f = 1 -> 1554
             [] kind = "A" /\ f = 2 -> 0
             [] kind = "A" /\ f > 2 -> 3058
             [] kind = "B" /\ f <= 2 -> 20000
             [] OTHER -> 518
      ELSE IF kind = "A" THEN 1394 ELSE 869

\* for every month of ReportTimes: no sample, or a sample of kind A or B
SampleChoices ==
    {k \in [DOMAIN ReportTimes -> {"-", "A", "B"}] :
        Cardinality({i \in DOMAIN ReportTimes : k[i] # "-"}) <= MaxSamples}

RECURSIVE ReportTable(_, _, _)
ReportTable(k, var, i) ==
    IF i > Len(ReportTimes) THEN <<>>
    ELSE (IF k[i] = "-" THEN <<>>
          ELSE [f \in 1..3 |-> TableRow(ReportTimes[i], f, KindDepth(var, f, k[i]))])
         \o ReportTable(k, var, i + 1)

ReportFiles ==
    {[fn_pp |-> FnPp, fn_et |-> FnEt, keys |-> KeyFile,
      pp |-> ReportTable(k, "pr", 1), et |-> ReportTable(k, "ET", 1)] :
        k \in SampleChoices}

\* area of land repurposed (acres), maximum consumptive use (1/1000 acre-foot)
AreaVals == {36}
MaxCuVals == {5849, 5850}

InitReport ==
    /\ InitSmb
    /\ InitWb
    /\ files \in ReportFiles

Generate ==
    \E water_year \in {2024, 2025}, quarter \in {"Q1", "Q2", "Q3", "Q4", "Q5"},
       area \in AreaVals, max_cu \in MaxCuVals :
        ReportBegin(water_year, quarter, 1, area, max_cu)

NextReport ==
    \/ Generate
    \/ ReportCalculate
    \/ RunCalcs
    \/ SmbIterT0
    \/ SmbIter
    \/ SmbReturn
    \/ RunCalcsFinish
    \/ ReportAggregate
    \/ PrintPage

SpecReport == InitReport /\ [][NextReport]_vars

-----------------------------------------------------------------------------
(* Properties of the recurrence *)

IsStepProbe == probe.fn \in {"smb_calc", "smb_calc_t0"}
IsEffProbe == probe.fn = "eff_precip"

\* C1: mass conservation of ET demand.  At every step of
\* calc_SMB_for_time_series (the t = 0 step and every later one), and for
\* every direct call of smb_calc / smb_calc_t0 with any precip, et, capacity,
\* runoff fraction and carried storage, cu_from_applied_water + cu_from_precip
\* equals the step's et.
C1_MassConservation ==
    /\ \A k \in DOMAIN cons_use_AW : cons_use_AW[k] + cons_use_ppt[k] = et_series[k]
    /\ IsStepProbe => probe.out.cu_AW + probe.out.cu_ppt = probe.et

\* a finished run whose second step draws on soil storage and on applied water
C1_Witness ==
    /\ pc = "smb_done"
    /\ Len(cons_use_AW) >= 2
    /\ cons_use_ss[2] > 0
    /\ cons_use_AW[2] > 0
    /\ ppt_eff[2] > 0

\* C2: storage bound.  In every series calc_SMB_for_time_series produces from
\* non-negative inputs, soil_storage_after at every step t > 0 lies in
\* [0, SOIL_STOR_CAP].
C2_StorageBound ==
    \A k \in DOMAIN ss : k > 1 => (0 <= ss[k] /\ ss[k] <= SOIL_STOR_CAP)

\* a step t > 0 whose recharge alone exceeds the capacity and is capped
C2_Witness ==
    \E k \in DOMAIN ss :
        /\ k > 1
        /\ ss[k] = SOIL_STOR_CAP
        /\ ss[k - 1] + (ppt_series[k] - ppt_eff[k] - runoff[k]) > SOIL_STOR_CAP

\* C3: effective precipitation bound.  For precip >= 0 and et >= 0 and any
\* value of the curve term, 0 <= eff_precip <= precip and eff_precip <= et;
\* precip = 0 gives 0.  Stated of the direct calls and of every step's
\* effective precipitation.
C3_EffPrecipBound ==
    /\ IsEffProbe =>
          /\ 0 <= probe.out
          /\ probe.out <= probe.precip
          /\ probe.out <= probe.et
          /\ probe.precip = 0 => probe.out = 0
    /\ \A k \in DOMAIN ppt_eff :
          /\ 0 <= ppt_eff[k]
          /\ ppt_eff[k] <= ppt_series[k]
          /\ ppt_eff[k] <= et_series[k]
          /\ ppt_series[k] = 0 => ppt_eff[k] = 0

\* a direct call with positive precip and et whose curve term is negative
C3_Witness ==
    /\ IsEffProbe
    /\ probe.curve < 0
    /\ probe.precip > 0
    /\ probe.et > 0
    /\ probe.out = 0

\* C4: first-step asymmetry.  The t = 0 step starts from the initial storage
\* 0 and adds no recharge: cu_from_soil_storage[0] = 0, soil_storage_after[0]
\* = 0, cu_from_precip[0] = effective_precip[0], cu_from_applied_water[0] =
\* et[0] - effective_precip[0], and step 1 is handed storage 0.
C4_FirstStep ==
    Len(ss) >= 1 =>
        /\ prev_used[1] = INITIAL_SOIL_STOR
        /\ cons_use_ss[1] = 0
        /\ ss[1] = 0
        /\ cons_use_ppt[1] = ppt_eff[1]
        /\ cons_use_AW[1] = et_series[1] - ppt_eff[1]
        /\ Len(prev_used) >= 2 => prev_used[2] = 0

\* a run past step 1 whose first sample left precipitation unused while ET
\* demand was left to applied water
C4_Witness ==
    /\ Len(ss) >= 2
    /\ ppt_series[1] - ppt_eff[1] > 0
    /\ et_series[1] - ppt_eff[1] > 0

\* C5: subsequent-step transition.  Every step t > 0 is handed
\* soil_storage_after[t-1] and computes storage_before_use = min(capacity,
\* soil_storage_after[t-1] + remainder_after_runoff[t]), cu_from_soil_storage[t]
\* = min(storage_before_use, et[t] - effective_precip[t]) and
\* soil_storage_after[t] = storage_before_use - cu_from_soil_storage[t].
C5_Transition ==
    \A k \in DOMAIN ss : k > 1 =>
        LET remainder == ppt_series[k] - ppt_eff[k] - runoff[k]
            carried == ss[k - 1]
            before == IF carried + remainder <= SOIL_STOR_CAP
                        THEN carried + remainder ELSE SOIL_STOR_CAP
            used == IF before <= et_series[k] - ppt_eff[k]
                      THEN before ELSE et_series[k] - ppt_eff[k]
        IN  /\ prev_used[k] = carried
            /\ cons_use_ss[k] = used
            /\ ss[k] = before - used

\* a third step whose carried storage differs from every earlier storage
C5_Witness ==
    /\ Len(ss) >= 3
    /\ ss[2] > 0
    /\ ss[2] # ss[1]
    /\ ss[3] # ss[2]
    /\ cons_use_ss[3] > 0

\* C6: determinism.  A call of calc_SMB_for_time_series returns the same six
\* series as any earlier call on the same precip and ET series, whatever
\* calls were made in between, and every call starts from empty result lists:
\* nothing of a call survives into the next.
C6_Determinism ==
    /\ (pc = "smb_done" /\ memo # NoCall /\ memo.ppt = ppt_series /\ memo.et = et_series)
          => smb_ret = memo.ret
    /\ (pc = "smb_loop" /\ t = 0) => (ss = <<>> /\ ppt_eff = <<>> /\ runoff = <<>> /\
          cons_use_ss = <<>> /\ cons_use_AW = <<>> /\ cons_use_ppt = <<>>)

\* a call repeated after a different call in between, the repeated series
\* ending with water left in the soil storage
C6_Witness ==
    /\ pc = "smb_done"
    /\ memo # NoCall
    /\ memo.ppt = ppt_series
    /\ memo.et = et_series
    /\ n_calls >= memo.call + 2
    /\ Len(ss) >= 2
    /\ ss[Len(ss)] > 0

\* C7: unit isolation.  Whatever units calculate_consumptive_use processes
\* and in whatever order the calls come, every unit's recurrence is handed
\* storage 0 at its first step, also when the unit processed before it ended
\* with water in storage, and the series a unit gets in all-units mode equals
\* the series it gets when processed alone.
C7_UnitIsolation ==
    /\ (ccu # NoCcu /\ Len(prev_used) >= 1) => prev_used[1] = 0
    /\ \A a \in returned, b \in returned : a.unit = b.unit => a.rows = b.rows

\* an all-units call that returned unit 2 after unit 1 ended with water in
\* storage, unit 2 having also been processed alone
C7_Witness ==
    /\ pc = "ccu_done"
    /\ ccu.concat_appl_id = NoneId
    /\ \E a \in returned, b \in returned, c \in returned :
          /\ a.all /\ a.unit = 1 /\ a.rows[Len(a.rows)].ss > 0
          /\ b.all /\ b.unit = 2 /\ Len(b.rows) >= 2
          /\ ~c.all /\ c.unit = 2

-----------------------------------------------------------------------------
(* Quarterly aggregation of generate_lrp_report *)

Aggregated == rep.state \in {"aggregated", "printed"}
Printed == rep.state = "printed"

QuarterOrder == <<"Q1", "Q2", "Q3", "Q4">>

\* the quarter and the water year of a calendar month, as enumerated:
\* Oct-Dec of Y are Q1 of Y+1, Jan-Mar Q2, Apr-Jun Q3, Jul-Sep Q4 of Y
QuarterOfMonth(m) ==
    CASE m \in {10, 11, 12} -> "Q1"
      [] m \in {1, 2, 3} -> "Q2"
      [] m \in {4, 5, 6} -> "Q3"
      [] m \in {7, 8, 9} -> "Q4"
WaterYearOfDate(d) ==
    IF MonthOf(d) \in {10, 11, 12} THEN YearOf(d) + 1 ELSE YearOf(d)

\* the samples of the series of the unit that belong to quarter q of the
\* target water year
SamplesOf(q) ==
    LET In(r) == /\ WaterYearOfDate(r.time) = rep.water_year
                 /\ QuarterOfMonth(MonthOf(r.time)) = q
    IN  SelectSeq(wb.df_smb, In)
TargetSamples ==
    LET In(r) == WaterYearOfDate(r.time) = rep.water_year
    IN  SelectSeq(wb.df_smb, In)

\* C8: the quarterly aggregation has exactly four rows, Q1, Q2, Q3, Q4 in
\* this order, whatever samples the target water year has, and every summed
\* quantity and the acre-feet value of a quarter without sample is 0 (its
\* running total is the one of the quarter before)
C8_AggregationReindexing ==
    Aggregated =>
        /\ Len(rep.df_sum) = 4
        /\ \A i \in 1..4 : rep.df_sum[i].Q = QuarterOrder[i]
        /\ \A i \in 1..4 :
              SamplesOf(QuarterOrder[i]) = <<>> =>
                /\ rep.df_sum[i].ss = 0
                /\ rep.df_sum[i].ppt_eff = 0
                /\ rep.df_sum[i].runoff = 0
                /\ rep.df_sum[i].cons_use_ss = 0
                /\ rep.df_sum[i].cons_use_AW = 0
                /\ rep.df_sum[i].cons_use_ppt = 0
                /\ rep.df_sum[i].pp_wght_av = 0
                /\ rep.df_sum[i].et_wght_av = 0
                /\ rep.df_sum[i].water_year = 0
                /\ rep.df_sum[i].cons_use_AW_af = 0
                /\ rep.df_sum[i].total_cons_use_AW_af =
                      (IF i = 1 THEN 0 ELSE rep.df_sum[i - 1].total_cons_use_AW_af)
        /\ Printed => Len(rep.table) = 4

\* a report whose first and third quarter have samples with applied water
\* and whose second quarter has none
C8_Witness ==
    /\ Printed
    /\ SamplesOf("Q1") # <<>>
    /\ SamplesOf("Q2") = <<>>
    /\ SamplesOf("Q3") # <<>>
    /\ rep.df_sum[1].cons_use_AW_af > 0
    /\ rep.df_sum[3].cons_use_AW_af > 0

\* a report of a water year without any sample
C8_EmptyReached ==
    /\ Printed
    /\ wb.df_smb # <<>>
    /\ TargetSamples = <<>>

\* C9: every sample gets the water year and the quarter of its calendar
\* month (Oct-Dec of Y: Q1 of Y+1; Jan-Mar: Q2, Apr-Jun: Q3, Jul-Sep: Q4 of
\* Y), and the sums of a quarter of the target water year are the sums over
\* exactly the samples of that quarter of that water year: every sample of
\* the target water year is counted once, no sample of another water year
C9_QuarterMapping ==
    Aggregated =>
        /\ \A i \in DOMAIN wb.df_smb :
              wb.df_smb[i].water_year = WaterYearOfDate(wb.df_smb[i].time)
        /\ \A i \in DOMAIN rep.df_wy :
              /\ rep.df_wy[i].Q = QuarterOfMonth(MonthOf(rep.df_wy[i].time))
              /\ WaterYearOfDate(rep.df_wy[i].time) = rep.water_year
        /\ Len(rep.df_wy) = Len(TargetSamples)
        /\ \A i \in 1..4 :
              LET g == SamplesOf(QuarterOrder[i])
              IN  /\ rep.df_sum[i].water_year = rep.water_year * Len(g)
                  /\ rep.df_sum[i].ss = SumSeq(Column(g, "ss"))
                  /\ rep.df_sum[i].ppt_eff = SumSeq(Column(g, "ppt_eff"))
                  /\ rep.df_sum[i].runoff = SumSeq(Column(g, "runoff"))
                  /\ rep.df_sum[i].cons_use_ss = SumSeq(Column(g, "cons_use_ss"))
                  /\ rep.df_sum[i].cons_use_AW = SumSeq(Column(g, "cons_use_AW"))
                  /\ rep.df_sum[i].cons_use_ppt = SumSeq(Column(g, "cons_use_ppt"))
                  /\ rep.df_sum[i].pp_wght_av = SumSeq(Column(g, "pp_wght_av"))
                  /\ rep.df_sum[i].et_wght_av = SumSeq(Column(g, "et_wght_av"))

\* a report of water year 2024 up to Q4 from samples of October 2023 and
\* September 2024 (the first and the last month of the water year) and of
\* September 2023 (the last month of the water year before)
C9_Witness ==
    /\ Printed
    /\ rep.water_year = 2024
    /\ {Date(2023, 9), Date(2023, 10), Date(2024, 9)} \subseteq ValuesOf(wb.df_smb, "time")
    /\ ValuesOf(rep.df_wy, "time") = {Date(2023, 10), Date(2024, 9)}
    /\ rep.df_sum[1].pp_wght_av > 0
    /\ rep.df_sum[4].pp_wght_av > 0

\* C10: the cumulative acre-feet of quarter Qk are the acre-feet of Q1..Qk
\* added up, and the cumulative cell of the row of the water-year total, the
\* sum of the four quarterly acre-feet, is the cumulative cell of Q4
C10_CumulativeTotal ==
    /\ Aggregated =>
          /\ rep.df_sum[1].total_cons_use_AW_af = rep.df_sum[1].cons_use_AW_af
          /\ rep.df_sum[2].total_cons_use_AW_af =
                rep.df_sum[1].cons_use_AW_af + rep.df_sum[2].cons_use_AW_af
          /\ rep.df_sum[3].total_cons_use_AW_af =
                rep.df_sum[1].cons_use_AW_af + rep.df_sum[2].cons_use_AW_af
                  + rep.df_sum[3].cons_use_AW_af
          /\ rep.df_sum[4].total_cons_use_AW_af =
                rep.df_sum[1].cons_use_AW_af + rep.df_sum[2].cons_use_AW_af
                  + rep.df_sum[3].cons_use_AW_af + rep.df_sum[4].cons_use_AW_af
    /\ Printed =>
          /\ rep.total_row.total_cons_use_AW_af =
                Fmt2(rep.df_sum[1].cons_use_AW_af + rep.df_sum[2].cons_use_AW_af
                       + rep.df_sum[3].cons_use_AW_af + rep.df_sum[4].cons_use_AW_af)
          /\ rep.total_row.total_cons_use_AW_af = rep.table[4].total_cons_use_AW_af

\* a printed report with applied water in at least three quarters
C10_Witness ==
    /\ Printed
    /\ Cardinality({i \in 1..4 : rep.df_sum[i].cons_use_AW_af > 0}) >= 3
    /\ rep.table[4].total_cons_use_AW_af > rep.table[4].cons_use_AW_af

-----------------------------------------------------------------------------
(* Compliance verdict of the printed page *)

\* the cumulative acre-feet of the water-year total: the four quarterly
\* acre-feet values added up
GrandTotal ==
    rep.df_sum[1].cons_use_AW_af + rep.df_sum[2].cons_use_AW_af
      + rep.df_sum[3].cons_use_AW_af + rep.df_sum[4].cons_use_AW_af

\* C11: the page is marked compliant exactly when the cumulative acre-feet
\* of the water-year total are at most the maximum consumptive use: a total
\* equal to the maximum is compliant, a total above it is not
C11_ComplianceVerdict ==
    Printed => (rep.is_compliant <=> GrandTotal <= rep.maximum_consumptive_use)

\* a page whose total is exactly the maximum consumptive use, compliant
C11_Witness ==
    /\ Printed
    /\ GrandTotal > 0
    /\ GrandTotal = rep.maximum_consumptive_use
    /\ rep.is_compliant

\* a page whose total is 1/1000 acre-foot above the maximum, not compliant
C11_AboveReached ==
    /\ Printed
    /\ GrandTotal = rep.maximum_consumptive_use + 1
    /\ ~rep.is_compliant

-----------------------------------------------------------------------------
(* Errors of calculate_consumptive_use *)

\* the unit _run_consumptive_use_calcs is about to be applied to, its fields
\* in the key table, and the rows of these fields in a table
TargetUnit == Head(ccu.groups)
FieldsOf(id) ==
    {wb.eki_fld_id_keys[i].EKIfld :
        i \in {j \in DOMAIN wb.eki_fld_id_keys :
                  wb.eki_fld_id_keys[j].concat_appl_ID = id}}
RowsOf(df, id) == {i \in DOMAIN df : df[i].EKIfld \in FieldsOf(id)}

\* C12: when the fields of the unit to be computed have no row in the ET
\* table or no row in the precipitation table, calculate_consumptive_use,
\* for one unit as for all units, raises an error that names the missing
\* variable and the fields of the unit, and returns nothing: not the series
\* of the units computed before, and df_smb of the object is not replaced
C12_NoDataError ==
    [][(pc = "run_calcs"
          /\ (RowsOf(wb.df_et, TargetUnit) = {} \/ RowsOf(wb.df_pp, TargetUnit) = {}))
        => /\ pc' = "raised"
           /\ error'.kind = "Exception"
           /\ error'.what \in {"evapotranspiration", "precipitation"}
           /\ error'.what = "evapotranspiration" => RowsOf(wb.df_et, TargetUnit) = {}
           /\ error'.what = "precipitation" => RowsOf(wb.df_pp, TargetUnit) = {}
           /\ error'.flds = FieldsOf(TargetUnit)
           /\ returned' = returned
           /\ wb'.df_smb = wb.df_smb]_vars

\* a call for all units that fails at the second unit, which has no
\* precipitation row, after the series of the first unit was computed
C12_Witness ==
    /\ pc = "raised"
    /\ error.kind = "Exception"
    /\ error.what = "precipitation"
    /\ error.flds = {3}
    /\ ccu.concat_appl_id = NoneId
    /\ ccu.applied # <<>>
    /\ returned = {}

\* a call for one unit that fails for want of ET rows
C12_SingleReached ==
    /\ pc = "raised"
    /\ error.kind = "Exception"
    /\ error.what = "evapotranspiration"
    /\ error.flds = {1, 2}
    /\ ccu.concat_appl_id = 1

\* the recurrence is running, or has returned, within calculate_consumptive_use
InRecurrence == ccu # NoCcu /\ pc \in {"smb_loop", "smb_done"}

C13_ShorterReached ==
    /\ pc = "IndexError"
    /\ ccu # NoCcu
    /\ t = Len(et_series)
    /\ t < Len(ppt_series)
    /\ returned = {}

\* the rows of a unit have just been added to the frame
UnitAdded == ccu # NoCcu /\ pc \in {"run_calcs", "ccu_done"} /\ ccu.applied # <<>>

\* C14: the rows of a unit are added to the frame only when the grouped
\* precipitation rows and the grouped ET rows of the unit have the same
\* timestamps, so that no row holds the precipitation of one date and the
\* ET of another
C14_TimeAxisMismatchRejected ==
    UnitAdded => Column(ccu.df_pp_av, "time") = Column(ccu.df_et_av, "time")

\* a returned series of unit 1 whose first row holds the precipitation of
\* the first month and the ET of the second month
C14_Mispaired ==
    /\ pc = "ccu_done"
    /\ ccu.concat_appl_id = 1
    /\ Len(ccu.df_pp_av) = Len(ccu.df_et_av)
    /\ ccu.df_pp_av[1].time = UnitTime(1)
    /\ ccu.df_et_av[1].time = UnitTime(2)
    /\ wb.df_smb[1].time = UnitTime(1)
    /\ wb.df_smb[1].et_wght_av = ccu.df_et_av[1].value
    /\ \E r \in returned : r.unit = 1 /\ r.rows = wb.df_smb

-----------------------------------------------------------------------------
(* Construction of CalculateWaterBalance *)

WellFormed(fn) == Len(fn) = 4
\* the program-year tag and the repurposed-status tag of a source
YearTag(fn) == fn[1]
RepurposedTag(fn) == fn[3]

TagsDiffer ==
    /\ WellFormed(files.fn_pp)
    /\ WellFormed(files.fn_et)
    /\ \/ YearTag(files.fn_pp) # YearTag(files.fn_et)
       \/ RepurposedTag(files.fn_pp) # RepurposedTag(files.fn_et)

\* no step of the recurrence has run and none is running
NoRecurrence ==
    /\ pc \notin {"run_calcs", "smb_loop", "smb_done", "ccu_done", "IndexError"}
    /\ prev_used = <<>>
    /\ ss = <<>>
    /\ smb_ret = NoReturn
    /\ returned = {}

\* C15: when the program-year tag or the repurposed tag of the
\* precipitation file differs from the one of the ET file, the constructor
\* of CalculateWaterBalance raises, no object exists, and no step of the
\* recurrence is ever run
C15_ConfigMismatch ==
    TagsDiffer =>
        /\ wb = NoObject
        /\ NoRecurrence
        /\ pc # "idle" =>
              /\ pc = "raised"
              /\ error.kind = "Exception"
              /\ error.what = (IF YearTag(files.fn_pp) # YearTag(files.fn_et)
                                 THEN "years do not match"
                                 ELSE "repurposed do not match")

\* the constructor has raised for names of the same program year, one
\* repurposed and one not
C15_Witness ==
    /\ TagsDiffer
    /\ YearTag(files.fn_pp) = YearTag(files.fn_et)
    /\ pc = "raised"
    /\ error.what = "repurposed do not match"

\* the constructor has raised for names of different program years
C15_YearsReached ==
    /\ TagsDiffer
    /\ RepurposedTag(files.fn_pp) = RepurposedTag(files.fn_et)
    /\ pc = "raised"
    /\ error.what = "years do not match"

-----------------------------------------------------------------------------
(* calculate_consumptive_use() for all units *)

\* the units of the key file whose rows are of the program year and of the
\* repurposed status of the file names
UnitsOfProgram ==
    LET digit == files.fn_pp[1][Len(files.fn_pp[1])]
        flag == IF files.fn_pp[3] = "repurposed" THEN "Y" ELSE "N"
    IN  {files.keys[i].concat_appl_ID :
            i \in {j \in DOMAIN files.keys :
                      /\ files.keys[j].LRP_Yr = <<"Yr", digit>>
                      /\ files.keys[j].Repurp = flag}}

AllUnitsDone == pc = "ccu_done" /\ ccu.concat_appl_id = NoneId

\* C16: the frame that a call for all units yields holds, for every unit of
\* the key table of the program year and repurposed status, and for no
\* other, one block of rows keyed by the unit, and the rows of a unit are
\* strictly increasing in time
C16_AllUnits ==
    AllUnitsDone =>
        LET df == wb.df_smb
        IN  /\ ValuesOf(df, "concat_appl_id") = UnitsOfProgram
            /\ \A i, k \in DOMAIN df :
                  (i < k /\ df[i].concat_appl_id = df[k].concat_appl_id) =>
                    /\ df[i].time < df[k].time
                    /\ \A j \in i..k : df[j].concat_appl_id = df[i].concat_appl_id
            /\ \A id \in UnitsOfProgram :
                  \E r \in returned :
                      /\ r.all
                      /\ r.unit = id
                      /\ r.rows # <<>>
                      /\ r.rows = SelectSeq(df, LAMBDA x : x.concat_appl_id = id)

\* a call for all units has returned the series of units 1 and 2, each of
\* every month, unit 1 from the rows of its two fields
C16_Witness ==
    /\ AllUnitsDone
    /\ UnitsOfProgram = {1, 2}
    /\ Len(wb.df_smb) = 2 * MaxTimes
    /\ \A f \in {1, 2} : \A k \in 1..MaxTimes :
          \E i \in DOMAIN wb.df_pp :
              wb.df_pp[i].EKIfld = f /\ wb.df_pp[i].time = UnitTime(k)

-----------------------------------------------------------------------------
(* Negative depths *)

HasNegative(seq) == \E i \in DOMAIN seq : seq[i] < 0

\* C17: a series with a negative precipitation or ET depth is rejected: no
\* step of the recurrence is computed from it and no returned series holds
\* a negative depth
C17_NegativeDepthsRejected ==
    /\ (pc \in {"smb_loop", "smb_done"}
          /\ (HasNegative(ppt_series) \/ HasNegative(et_series)))
        => ss = <<>>
    /\ \A r \in returned :
          /\ ~HasNegative(Column(r.rows, "pp_wght_av"))
          /\ ~HasNegative(Column(r.rows, "et_wght_av"))

\* a returned series of unit 2 whose first row has a negative ET depth and
\* a negative effective precipitation
C17_NegativeEmitted ==
    /\ pc = "ccu_done"
    /\ \E r \in returned :
          /\ r.unit = 2
          /\ r.rows[1].et_wght_av < 0
          /\ r.rows[1].ppt_eff = r.rows[1].et_wght_av
          /\ r.rows[1].cons_use_ppt < 0

-----------------------------------------------------------------------------
(* Sign of the applied-water use *)

\* C18: for depths that are not negative, the consumptive use of applied
\* water of every step is not negative; so the cumulative acre-feet do not
\* decrease from Q1 to Q4, and their maximum, which page_body compares with
\* the maximum consumptive use, is the cumulative value of Q4
C18_NonNegativeAppliedWater ==
    /\ (~HasNegative(ppt_series) /\ ~HasNegative(et_series))
         => \A i \in DOMAIN cons_use_AW : cons_use_AW[i] >= 0
    /\ Aggregated =>
         /\ \A i \in DOMAIN wb.df_smb : wb.df_smb[i].cons_use_AW >= 0
         /\ \A i \in 1..4 : rep.df_sum[i].cons_use_AW_af >= 0
         /\ \A i \in 1..3 :
               rep.df_sum[i].total_cons_use_AW_af <= rep.df_sum[i + 1].total_cons_use_AW_af
         /\ MaxOf(Column(rep.df_sum, "total_cons_use_AW_af"))
               = rep.df_sum[4].total_cons_use_AW_af

\* a printed report whose cumulative acre-feet grow in Q1, Q2 and Q3, from
\* a series that also has a step without applied water
C18_Witness ==
    /\ Printed
    /\ 0 < rep.df_sum[1].total_cons_use_AW_af
    /\ rep.df_sum[1].total_cons_use_AW_af < rep.df_sum[2].total_cons_use_AW_af
    /\ rep.df_sum[2].total_cons_use_AW_af < rep.df_sum[3].total_cons_use_AW_af
    /\ rep.df_sum[3].total_cons_use_AW_af = rep.df_sum[4].total_cons_use_AW_af

\* a series with a step whose ET is met by precipitation and storage alone
C18_ZeroStepReached ==
    /\ Printed
    /\ \E i \in DOMAIN wb.df_smb :
          wb.df_smb[i].cons_use_AW = 0 /\ wb.df_smb[i].et_wght_av > 0
    /\ \E i \in DOMAIN wb.df_smb : wb.df_smb[i].cons_use_AW > 0

-----------------------------------------------------------------------------
(* Cut-off of a report at the end of its quarter *)

Reporting == rep.state \in {"begun", "aggregated", "printed"} /\ wb # NoObject

\* the month of the last day of the reported quarter: December of the year
\* before for Q1, March, June, September of the water year for Q2, Q3, Q4
LastMonthOfQuarter ==
    CASE rep.quarter = "Q1" -> Date(rep.water_year - 1, 12)
      [] rep.quarter = "Q2" -> Date(rep.water_year, 3)
      [] rep.quarter = "Q3" -> Date(rep.water_year, 6)
      [] rep.quarter = "Q4" -> Date(rep.water_year, 9)

ReportedQuarter == IndexOf(QuarterOrder, rep.quarter)

AllZero(row) ==
    /\ row.ss = 0 /\ row.ppt_eff = 0 /\ row.runoff = 0
    /\ row.cons_use_ss = 0 /\ row.cons_use_AW = 0 /\ row.cons_use_ppt = 0
    /\ row.pp_wght_av = 0 /\ row.et_wght_av = 0
    /\ row.cons_use_AW_af = 0

\* C19: a report of quarter Qk of water year W uses no sample dated after
\* the last day of Qk: none is in the tables of the water balance, none in
\* the series handed to the recurrence, none in the aggregated rows; the
\* quarters after Qk have zero aggregates and the cumulative value of Q4 is
\* the one of Qk
C19_ReportCutOff ==
    Reporting =>
        /\ wb.end_date = LastMonthOfQuarter
        /\ \A i \in DOMAIN wb.df_pp : wb.df_pp[i].time <= LastMonthOfQuarter
        /\ \A i \in DOMAIN wb.df_et : wb.df_et[i].time <= LastMonthOfQuarter
        /\ pc \in {"smb_loop", "smb_done"} =>
              /\ \A i \in DOMAIN ccu.df_pp_av : ccu.df_pp_av[i].time <= LastMonthOfQuarter
              /\ \A i \in DOMAIN ccu.df_et_av : ccu.df_et_av[i].time <= LastMonthOfQuarter
              /\ ppt_series = Column(ccu.df_pp_av, "value")
              /\ et_series = Column(ccu.df_et_av, "value")
        /\ \A i \in DOMAIN wb.df_smb : wb.df_smb[i].time <= LastMonthOfQuarter
        /\ Aggregated =>
              /\ \A i \in DOMAIN rep.df_wy : rep.df_wy[i].time <= LastMonthOfQuarter
              /\ \A j \in 1..4 : j > ReportedQuarter => AllZero(rep.df_sum[j])
              /\ rep.df_sum[4].total_cons_use_AW_af
                    = rep.df_sum[ReportedQuarter].total_cons_use_AW_af

\* a printed report of Q2 of water year 2024 with applied water, from
\* tables that also hold a sample of Q3 or Q4 of that water year
C19_Witness ==
    /\ Printed
    /\ rep.water_year = 2024
    /\ rep.quarter = "Q2"
    /\ rep.df_sum[2].cons_use_AW_af > 0
    /\ \E i \in DOMAIN files.et :
          /\ files.et[i].EKIfld = 1
          /\ files.et[i].time > Date(2024, 3)
          /\ files.et[i].time <= Date(2024, 9)

=============================================================================
